---------------------------- MODULE Spec2Model ----------------------------
(***************************************************************************)
(* A model of live-server.py: a static file server on a fixed port whose   *)
(* request handler adds three no-cache headers in end_headers, plus a      *)
(* one-shot Timer thread that opens the browser.  The main thread runs     *)
(* lines 25-39 of the script; the request handler is the script's          *)
(* MyHTTPRequestHandler, i.e. http.server.SimpleHTTPRequestHandler with    *)
(* end_headers overridden; the server is socketserver.TCPServer.           *)
(***************************************************************************)
EXTENDS Integers, Sequences, FiniteSets, TLC

(***************************************************************************)
(* Bounds of the model.                                                    *)
(***************************************************************************)
MaxSegs == 2          \* longest request path of the path sweep, in segments
MaxBacklog == 2       \* connections waiting in the listen queue
MaxSigints == 2       \* interrupt signals delivered in one run
MaxTime == 2          \* seconds the clock runs past without a pending timer

(***************************************************************************)
(* Program constants.                                                      *)
(***************************************************************************)
PORT == 8081
INTERVAL == 1         \* Timer(1.0, open_browser)
EXIT_OK == 0          \* sys.exit(0)
EXIT_ERROR == 1       \* the interpreter's status for an uncaught exception
EXIT_SIGINT == 130    \* the status of an uncaught KeyboardInterrupt

\* f'http://localhost:{PORT}'
BrowserUrl == [scheme |-> "http", host |-> "localhost", port |-> PORT]

(***************************************************************************)
(* The file system the server reads (it never writes it).  ScriptDir is    *)
(* os.path.dirname(os.path.abspath(__file__)); InvocationDir is the        *)
(* working directory the process is started in.                            *)
(***************************************************************************)
ScriptDir == <<"srv">>
InvocationDir == <<"home">>

Missing == [type |-> "missing", readable |-> FALSE, data |-> <<>>, mtime |-> 0]

Node(p) ==
    CASE p = <<>>                       -> [type |-> "dir",  readable |-> TRUE,  data |-> <<>>, mtime |-> 0]
      [] p = <<"srv">>                  -> [type |-> "dir",  readable |-> TRUE,  data |-> <<>>, mtime |-> 0]
      [] p = <<"srv", "a">>             -> [type |-> "file", readable |-> TRUE,  data |-> <<1, 2, 3>>, mtime |-> 5]
      [] p = <<"srv", "u">>             -> [type |-> "file", readable |-> FALSE, data |-> <<4, 4>>, mtime |-> 5]
      [] p = <<"srv", "d">>             -> [type |-> "dir",  readable |-> TRUE,  data |-> <<>>, mtime |-> 0]
      [] p = <<"srv", "d", "index.html">> -> [type |-> "file", readable |-> TRUE, data |-> <<5, 6, 7, 8, 9>>, mtime |-> 5]
      [] p = <<"srv", "x">>             -> [type |-> "dir",  readable |-> FALSE, data |-> <<>>, mtime |-> 0]
      [] p = <<"secret">>               -> [type |-> "file", readable |-> TRUE,  data |-> <<9, 9, 9>>, mtime |-> 5]
      [] p = <<"home">>                 -> [type |-> "dir",  readable |-> TRUE,  data |-> <<>>, mtime |-> 0]
      [] p = <<"home", "a">>            -> [type |-> "file", readable |-> TRUE,  data |-> <<3, 2, 1>>, mtime |-> 5]
      [] OTHER                          -> Missing

\* What the operating system makes of a path: "." stays, ".." goes up.
RECURSIVE Resolve(_, _)
Resolve(segs, acc) ==
    IF segs = <<>> THEN acc
    ELSE LET c == Head(segs) IN
         IF c = "." THEN Resolve(Tail(segs), acc)
         ELSE IF c = ".."
              THEN Resolve(Tail(segs), IF acc = <<>> THEN acc ELSE SubSeq(acc, 1, Len(acc) - 1))
              ELSE Resolve(Tail(segs), Append(acc, c))

Realpath(segs) == Resolve(segs, <<>>)

IsUnder(p, dir) == Len(p) >= Len(dir) /\ SubSeq(p, 1, Len(dir)) = dir

\* os.path.isdir, os.path.isfile: a file path with a trailing slash is no file.
isdir(fp) == Node(Realpath(fp.segs)).type = "dir"
isfile(fp) == ~fp.slash /\ Node(Realpath(fp.segs)).type = "file"
\* open(path, 'rb') succeeds
CanOpen(fp) == isfile(fp) /\ Node(Realpath(fp.segs)).readable
\* os.listdir(path) succeeds
CanList(fp) == isdir(fp) /\ Node(Realpath(fp.segs)).readable


(***************************************************************************)
(* Requests.  A request is what the handler reads from one connection:     *)
(* the request line (its words) and the headers the handler looks at.      *)
(*   line    "eof" (nothing sent), "blank", "toolong" (> 65536 bytes) or   *)
(*           "words"                                                       *)
(*   nwords  the number of words of the request line; the first is the     *)
(*           command, the second the path, the last (of three or more)     *)
(*           the version                                                   *)
(*   path    [abs, segs, slash]: a leading "/", the segments between       *)
(*           slashes after unquoting, a trailing "/"                       *)
(*   hdr     "ok", or "toolong" for a header line over the limit           *)
(*   ims     If-Modified-Since: "none", "bad" (ill-formed), "older" or     *)
(*           "notolder" than the file's modification time                  *)
(*   inm     an If-None-Match header is present                            *)
(***************************************************************************)
RootPath == [abs |-> TRUE, segs |-> <<>>, slash |-> FALSE]
AbsPath(segs) == [abs |-> TRUE, segs |-> segs, slash |-> FALSE]

\* The path as sent ends with "/".
EndsWithSlash(path) == IF path.segs = <<>> THEN path.abs ELSE path.slash

SweepNames == {"..", "a", "d", "secret", "index.html"}

RECURSIVE SeqsUpTo(_, _)
SeqsUpTo(S, n) ==
    IF n = 0 THEN {<<>>}
    ELSE LET shorter == SeqsUpTo(S, n - 1) IN
         shorter \cup {Append(q, x) : q \in shorter, x \in S}

SweepPaths ==
    {RootPath} \cup
    {[abs |-> a, segs |-> q, slash |-> sl] :
        a \in BOOLEAN, q \in SeqsUpTo(SweepNames, MaxSegs) \ {<<>>}, sl \in BOOLEAN}

FixedPaths ==
    {AbsPath(<<"a">>), AbsPath(<<"u">>), AbsPath(<<"nope">>), AbsPath(<<"x">>),
     AbsPath(<<"d">>), [abs |-> TRUE, segs |-> <<"x">>, slash |-> TRUE],
     [abs |-> TRUE, segs |-> <<".", "a">>, slash |-> FALSE],
     [abs |-> FALSE, segs |-> <<"..", "secret">>, slash |-> FALSE]}

NoIms == [kind |-> "none", t |-> 0]
BadIms == [kind |-> "bad", t |-> 0]
DateIms(t) == [kind |-> "date", t |-> t]

PlainGet(path) ==
    [line |-> "words", nwords |-> 3, command |-> "GET", version |-> "HTTP/1.1",
     path |-> path, hdr |-> "ok", ims |-> NoIms, inm |-> FALSE]

\* A request line of fewer than three words has no version word, and one of
\* one word has no path.
Shape(r) ==
    IF r.nwords >= 3 THEN r
    ELSE IF r.nwords = 2 THEN [r EXCEPT !.version = ""]
    ELSE [r EXCEPT !.version = "", !.path = RootPath]

Requests ==
    \* every path, as a plain GET
    {PlainGet(p) : p \in SweepPaths \cup FixedPaths}
    \* every shape of request line and header section, on a few paths
    \cup {Shape([PlainGet(p) EXCEPT !.nwords = n, !.command = c, !.version = v]) :
            p \in FixedPaths, n \in 1..4, c \in {"GET", "HEAD", "POST"},
            v \in {"HTTP/1.0", "HTTP/1.1", "HTTP/2.0", "HTTP/abc"}}
    \cup {[PlainGet(RootPath) EXCEPT !.line = l] : l \in {"eof", "blank", "toolong"}}
    \cup {Shape([PlainGet(AbsPath(<<"a">>)) EXCEPT !.hdr = "toolong", !.nwords = n]) : n \in 2..3}
    \* every conditional header, on files, a directory and a missing path
    \cup {Shape([PlainGet(p) EXCEPT !.nwords = n, !.command = c, !.ims = i, !.inm = m]) :
            p \in {AbsPath(<<"a">>), AbsPath(<<"d", "index.html">>), AbsPath(<<"nope">>),
                   [abs |-> TRUE, segs |-> <<"d">>, slash |-> TRUE]},
            n \in 2..3, c \in {"GET", "HEAD"},
            i \in {NoIms, BadIms, DateIms(4), DateIms(5), DateIms(6)}, m \in BOOLEAN}

NoReq == [PlainGet(RootPath) EXCEPT !.line = "none"]

(***************************************************************************)
(* posixpath.normpath on the segments of a path: "" and "." are dropped,   *)
(* ".." removes the segment before it, is dropped at the root of an        *)
(* absolute path and is kept at the start of a relative one.               *)
(***************************************************************************)
RECURSIVE NormComps(_, _, _)
NormComps(comps, new_comps, initial_slashes) ==
    IF comps = <<>> THEN new_comps
    ELSE LET comp == Head(comps)
             n == Len(new_comps)
         IN  IF comp \in {"", "."} THEN NormComps(Tail(comps), new_comps, initial_slashes)
             ELSE IF comp # ".." \/ (~initial_slashes /\ n = 0) \/ (n > 0 /\ new_comps[n] = "..")
                  THEN NormComps(Tail(comps), Append(new_comps, comp), initial_slashes)
                  ELSE IF n > 0
                       THEN NormComps(Tail(comps), SubSeq(new_comps, 1, n - 1), initial_slashes)
                       ELSE NormComps(Tail(comps), new_comps, initial_slashes)

normpath(path) ==
    LET comps == NormComps(path.segs, <<>>, path.abs)
    IN  IF comps = <<>> /\ ~path.abs THEN <<".">> ELSE comps

\* The loop of translate_path: a word that is os.curdir or os.pardir is skipped.
RECURSIVE JoinWords(_, _)
JoinWords(path, words) ==
    IF words = <<>> THEN path
    ELSE IF Head(words) \in {".", ".."}
         THEN JoinWords(path, Tail(words))
         ELSE JoinWords(Append(path, Head(words)), Tail(words))

\* The same loop without the test: every word is joined.
RECURSIVE JoinAllWords(_, _)
JoinAllWords(path, words) ==
    IF words = <<>> THEN path
    ELSE JoinAllWords(Append(path, Head(words)), Tail(words))

\* translate_path joining every word, ".." included.
translate_path_join_all(directory, path) ==
    [segs |-> JoinAllWords(directory, normpath(path)), slash |-> EndsWithSlash(path)]

\* SimpleHTTPRequestHandler.translate_path, with self.directory = directory:
\* the local path [segs, slash] of a request path.
translate_path(directory, path) ==
    [segs |-> JoinWords(directory, normpath(path)), slash |-> EndsWithSlash(path)]


(***************************************************************************)
(* The response a handler writes.  code is the status the handler passes   *)
(* to send_response (and logs); statusLine says whether a status line and  *)
(* a header section are on the wire; headers are the header lines in the   *)
(* order sent; body is what follows them.                                  *)
(***************************************************************************)
NoBody == [kind |-> "none", data |-> <<>>, path |-> <<>>]
ErrorPage == [kind |-> "error", data |-> <<>>, path |-> <<>>]
ListingOf(rp) == [kind |-> "listing", data |-> <<>>, path |-> rp]

NoResp == [sent |-> FALSE, statusLine |-> FALSE, code |-> 0, headers |-> <<>>, body |-> NoBody]

\* BaseHTTPRequestHandler.send_header: nothing is buffered for HTTP/0.9.
send_header(request_version, buffer, keyword, value) ==
    IF request_version # "HTTP/0.9" THEN Append(buffer, <<keyword, value>>) ELSE buffer

\* BaseHTTPRequestHandler.end_headers (super().end_headers()): the buffer is
\* flushed as it is.
super_end_headers(request_version, buffer) == buffer

\* end_headers without the Expires header.
end_headers_no_expires(request_version, buffer) ==
    LET b1 == send_header(request_version, buffer, "Cache-Control", "no-cache, no-store, must-revalidate")
        b2 == send_header(request_version, b1, "Pragma", "no-cache")
    IN  super_end_headers(request_version, b2)

\* MyHTTPRequestHandler.end_headers
end_headers(request_version, buffer) ==
    LET b1 == send_header(request_version, buffer, "Cache-Control", "no-cache, no-store, must-revalidate")
        b2 == send_header(request_version, b1, "Pragma", "no-cache")
        b3 == send_header(request_version, b2, "Expires", "0")
    IN  super_end_headers(request_version, b3)

\* send_response: the status line, then Server and Date.
send_response(request_version) ==
    send_header(request_version,
                send_header(request_version, <<>>, "Server", "SimpleHTTP"),
                "Date", "now")

RECURSIVE SendAll(_, _, _)
SendAll(request_version, buffer, hs) ==
    IF hs = <<>> THEN buffer
    ELSE SendAll(request_version,
                 send_header(request_version, buffer, Head(hs)[1], Head(hs)[2]), Tail(hs))

\* A whole response: send_response(code), the headers hs, end_headers, body.
Respond(request_version, code, hs, body) ==
    [sent       |-> request_version # "HTTP/0.9" \/ body.kind # "none",
     statusLine |-> request_version # "HTTP/0.9",
     code       |-> code,
     headers    |-> end_headers(request_version, SendAll(request_version, send_response(request_version), hs)),
     body       |-> body]

\* send_error: every code used here is >= 200 and none of 204, 205, 304, so
\* the error page is built; it is written unless the command is HEAD.
send_error(request_version, command, code) ==
    Respond(request_version, code,
            << <<"Connection", "close">>, <<"Content-Type", "text/html;charset=utf-8">>,
               <<"Content-Length", "len(body)">> >>,
            IF command # "HEAD" THEN ErrorPage ELSE NoBody)


(***************************************************************************)
(* parse_request.  The request version starts as default_request_version  *)
(* ("HTTP/0.9") and becomes the version word only once that word has been  *)
(* accepted, so the errors sent before that are sent as HTTP/0.9.          *)
(***************************************************************************)
\* The (major, minor) of a version word, or <<>> where the parse raises.
version_number(version) ==
    CASE version = "HTTP/1.0" -> <<1, 0>>
      [] version = "HTTP/1.1" -> <<1, 1>>
      [] version = "HTTP/2.0" -> <<2, 0>>
      [] OTHER                -> <<>>

Parsed(rv) == [ok |-> TRUE, request_version |-> rv, resp |-> NoResp]
Failed(resp) == [ok |-> FALSE, request_version |-> "", resp |-> resp]

parse_request(req) ==
    LET default == "HTTP/0.9"
        vn == version_number(req.version)
    IN  IF req.line = "blank" THEN Failed(NoResp)
        ELSE IF req.nwords >= 3 /\ vn = <<>> THEN Failed(send_error(default, "None", 400))
        ELSE IF req.nwords >= 3 /\ vn[1] >= 2 THEN Failed(send_error(default, "None", 505))
        ELSE LET rv == IF req.nwords >= 3 THEN req.version ELSE default IN
             IF ~(2 <= req.nwords /\ req.nwords <= 3) THEN Failed(send_error(rv, "None", 400))
             ELSE IF req.nwords = 2 /\ req.command # "GET" THEN Failed(send_error(rv, "None", 400))
             ELSE IF req.hdr = "toolong" THEN Failed(send_error(rv, req.command, 431))
             ELSE Parsed(rv)

(***************************************************************************)
(* shutil.copyfileobj, as copyfile calls it: the file is read and written  *)
(* a buffer at a time until a read returns nothing.                        *)
(***************************************************************************)
CopyBufsize == 2

RECURSIVE copyfileobj(_, _)
copyfileobj(source, written) ==
    IF source = <<>> THEN written
    ELSE LET n == IF Len(source) < CopyBufsize THEN Len(source) ELSE CopyBufsize
         IN  copyfileobj(SubSeq(source, n + 1, Len(source)), written \o SubSeq(source, 1, n))

copyfile(source) == copyfileobj(source, <<>>)

(***************************************************************************)
(* send_head and do_GET / do_HEAD.                                         *)
(***************************************************************************)
\* The same test without the If-None-Match condition.
NotModifiedIgnoringINM(req, mtime) ==
    /\ req.ims.kind = "date"
    /\ mtime <= req.ims.t

\* "Use browser cache if possible": the test that answers 304.
NotModified(req, mtime) ==
    /\ req.ims.kind = "date"
    /\ ~req.inm
    /\ mtime <= req.ims.t

\* The file part of send_head, from "ctype = self.guess_type(path)" on,
\* followed by do_GET's copyfile (do_HEAD copies nothing).
serve_file(req, rv, fp) ==
    IF fp.slash THEN send_error(rv, req.command, 404)
    ELSE IF ~CanOpen(fp) THEN send_error(rv, req.command, 404)
    ELSE LET rp == Realpath(fp.segs)
             f == Node(rp)
         IN  IF NotModified(req, f.mtime) THEN Respond(rv, 304, <<>>, NoBody)
             ELSE Respond(rv, 200,
                          << <<"Content-type", "guess_type(path)">>,
                             <<"Content-Length", "st_size">>,
                             <<"Last-Modified", "st_mtime">> >>,
                          IF req.command = "GET"
                          THEN [kind |-> "file", data |-> copyfile(f.data), path |-> rp]
                          ELSE NoBody)

list_directory(req, rv, fp) ==
    IF ~CanList(fp) THEN send_error(rv, req.command, 404)
    ELSE Respond(rv, 200,
                 << <<"Content-type", "text/html; charset=utf-8">>,
                    <<"Content-Length", "len(encoded)">> >>,
                 IF req.command = "GET" THEN ListingOf(Realpath(fp.segs)) ELSE NoBody)

send_head(req, rv, directory) ==
    LET path == translate_path(directory, req.path) IN
    IF isdir(path)
    THEN IF ~EndsWithSlash(req.path)
         THEN Respond(rv, 301, << <<"Location", "path/">>, <<"Content-Length", "0">> >>, NoBody)
         ELSE LET html == [segs |-> Append(path.segs, "index.html"), slash |-> FALSE]
                  htm  == [segs |-> Append(path.segs, "index.htm"), slash |-> FALSE]
              IN  IF isfile(html) THEN serve_file(req, rv, html)
                  ELSE IF isfile(htm) THEN serve_file(req, rv, htm)
                  ELSE list_directory(req, rv, path)
    ELSE serve_file(req, rv, path)

\* handle_one_request, for the one request of a connection (the handler's
\* protocol_version is HTTP/1.0, so the connection closes after it).
handle_one_request(req, directory) ==
    IF req.line = "toolong" THEN send_error("", "", 414)
    ELSE IF req.line = "eof" THEN NoResp
    ELSE LET p == parse_request(req) IN
         IF ~p.ok THEN p.resp
         ELSE IF req.command \notin {"GET", "HEAD"}
              THEN send_error(p.request_version, req.command, 501)
              ELSE send_head(req, p.request_version, directory)


(***************************************************************************)
(* The process.                                                            *)
(*                                                                         *)
(* pc is the main thread's position:                                       *)
(*   "chdir" (line 25), "bind" (27), "print1".."print3" (28-30),           *)
(*   "timer" (33), "serve_forever" (about to enter the try of line 35),    *)
(*   "select" (in serve_forever, waiting for a connection), "handle" (in   *)
(*   the handler of an accepted connection), "shutdown_request" (the       *)
(*   handler has returned), "except" (line 38), "sysexit" (39), "unwind"   *)
(*   (the with statement's __exit__), "finalize" (the interpreter joins    *)
(*   the non-daemon threads), "terminated".                                *)
(* timerPc is the Timer thread's: "unstarted", "waiting" (in               *)
(*   finished.wait(interval)), "opening" (in webbrowser.open), "done",     *)
(*   or "killed" (the process ended under it).                             *)
(***************************************************************************)
VARIABLES
    pc, exc, exitCode, cwd, portInUse, listening, boundPort, stdout, trace,
    backlog, active, req, resp, prevFailed,
    timerPc, deadline, opens, now, sigints, intr, joinAborted

vars == << pc, exc, exitCode, cwd, portInUse, listening, boundPort, stdout, trace,
           backlog, active, req, resp, prevFailed,
           timerPc, deadline, opens, now, sigints, intr, joinAborted >>

mainVars == << pc, exc, exitCode, cwd, listening, boundPort, stdout, trace,
               active, req, resp, prevFailed >>
timerVars == << timerPc, deadline, opens >>
envVars == << portInUse, now, sigints, intr, joinAborted >>

NoIntr == [at |-> "never", timer |-> "unstarted"]

Init ==
    /\ pc = "chdir"
    /\ exc = "none"
    /\ exitCode = -1
    /\ cwd = InvocationDir
    /\ portInUse \in BOOLEAN
    /\ listening = FALSE
    /\ boundPort = 0
    /\ stdout = <<>>
    /\ trace = <<>>
    /\ backlog = 0
    /\ active = 0
    /\ req = NoReq
    /\ resp = NoResp
    /\ prevFailed = FALSE
    /\ timerPc = "unstarted"
    /\ deadline = 0
    /\ opens = <<>>
    /\ now = 0
    /\ sigints = 0
    /\ intr = NoIntr
    /\ joinAborted = FALSE

\* The order of the statements of lines 25-36.
StartupNextTimerFirst(p) ==
    CASE p = "chdir"  -> "timer"
      [] p = "timer"  -> "bind"
      [] p = "bind"   -> "print1"
      [] p = "print1" -> "print2"
      [] p = "print2" -> "print3"
      [] p = "print3" -> "serve_forever"

StartupNext(p) ==
    CASE p = "chdir"  -> "bind"
      [] p = "bind"   -> "print1"
      [] p = "print1" -> "print2"
      [] p = "print2" -> "print3"
      [] p = "print3" -> "timer"
      [] p = "timer"  -> "serve_forever"

\* line 25: os.chdir(os.path.dirname(os.path.abspath(__file__)))
Chdir ==
    /\ pc = "chdir"
    /\ cwd' = ScriptDir
    /\ trace' = Append(trace, "chdir")
    /\ pc' = StartupNext(pc)
    /\ UNCHANGED << exc, exitCode, listening, boundPort, stdout, active, req, resp, prevFailed,
                    backlog, timerVars, envVars >>

\* server_bind succeeds only on a free port (allow_reuse_address is False).
BindSucceedsAlways == TRUE

BindSucceeds == ~portInUse

\* line 27: socketserver.TCPServer(("", PORT), MyHTTPRequestHandler).  A bind
\* that fails closes the socket and raises OSError, which nothing catches.
Bind ==
    /\ pc = "bind"
    /\ IF BindSucceeds
       THEN /\ listening' = TRUE
            /\ boundPort' = PORT
            /\ trace' = Append(trace, "bind")
            /\ pc' = StartupNext(pc)
            /\ exc' = exc
       ELSE /\ exc' = "OSError"
            /\ pc' = "finalize"
            /\ UNCHANGED << listening, boundPort, trace >>
    /\ UNCHANGED << exitCode, cwd, stdout, active, req, resp, prevFailed,
                    backlog, timerVars, envVars >>

StartupMessage(p) ==
    CASE p = "print1" -> "Servidor iniciado en http://localhost:8081"
      [] p = "print2" -> "Vista previa en tiempo real activada"
      [] p = "print3" -> "Presiona Ctrl+C para detener"

\* lines 28-30
PrintStartup ==
    /\ pc \in {"print1", "print2", "print3"}
    /\ stdout' = Append(stdout, StartupMessage(pc))
    /\ trace' = Append(trace, "print")
    /\ pc' = StartupNext(pc)
    /\ UNCHANGED << exc, exitCode, cwd, listening, boundPort, active, req, resp, prevFailed,
                    backlog, timerVars, envVars >>

\* line 33: Timer(1.0, open_browser).start()
StartTimer ==
    /\ pc = "timer"
    /\ timerPc' = "waiting"
    /\ deadline' = now + INTERVAL
    /\ trace' = Append(trace, "timer")
    /\ pc' = StartupNext(pc)
    /\ UNCHANGED << exc, exitCode, cwd, listening, boundPort, stdout, active, req, resp,
                    prevFailed, backlog, opens, envVars >>

\* lines 35-36: the try is entered and serve_forever called.
ServeForever ==
    /\ pc = "serve_forever"
    /\ trace' = Append(trace, "serve_forever")
    /\ pc' = "select"
    /\ UNCHANGED << exc, exitCode, cwd, listening, boundPort, stdout, active, req, resp,
                    prevFailed, backlog, timerVars, envVars >>


(***************************************************************************)
(* serve_forever: TCPServer handles a connection in the thread that        *)
(* accepted it, so the next accept waits for the handler to return.        *)
(***************************************************************************)
\* A server that hands each connection to a thread of its own.
CanAcceptThreaded == pc \in {"select", "handle", "shutdown_request"}

CanAccept == pc = "select"

\* select reports the listening socket readable; get_request accepts.
Accept ==
    /\ CanAccept
    /\ listening
    /\ backlog > 0
    /\ backlog' = backlog - 1
    /\ active' = active + 1
    /\ pc' = "handle"
    /\ UNCHANGED << exc, exitCode, cwd, listening, boundPort, stdout, trace, req, resp,
                    prevFailed, timerVars, envVars >>

\* finish_request: the handler is constructed with directory = os.getcwd(),
\* reads the request and writes the response.
HandleRequest ==
    /\ pc = "handle"
    /\ \E r \in Requests :
          /\ req' = r
          /\ resp' = handle_one_request(r, cwd)
    /\ pc' = "shutdown_request"
    /\ UNCHANGED << exc, exitCode, cwd, listening, boundPort, stdout, trace, active,
                    prevFailed, backlog, timerVars, envVars >>

ClientReset == [NoReq EXCEPT !.line = "reset"]

\* The handler raises an Exception (the client reset the connection):
\* _handle_request_noblock catches it and calls handle_error.
HandlerException ==
    /\ pc = "handle"
    /\ req' = ClientReset
    /\ resp' = NoResp
    /\ pc' = "shutdown_request"
    /\ UNCHANGED << exc, exitCode, cwd, listening, boundPort, stdout, trace, active,
                    prevFailed, backlog, timerVars, envVars >>

\* The request failed: an error response for a missing or unreadable path,
\* or an exception in the handler.
RequestFailed(r, rs) == r = ClientReset \/ rs.code \in {403, 404}

\* Where the main thread goes once a request is over: back to select.
AfterRequestFatal(r, rs) == IF RequestFailed(r, rs) THEN "unwind" ELSE "select"

AfterRequest(r, rs) == "select"

\* shutdown_request(request): the connection is closed.
ShutdownRequest ==
    /\ pc = "shutdown_request"
    /\ active' = active - 1
    /\ prevFailed' = RequestFailed(req, resp)
    /\ req' = NoReq
    /\ resp' = NoResp
    /\ pc' = AfterRequest(req, resp)
    /\ UNCHANGED << exc, exitCode, cwd, listening, boundPort, stdout, trace,
                    backlog, timerVars, envVars >>

(***************************************************************************)
(* Shutdown.                                                               *)
(***************************************************************************)
\* line 38: print("\n Servidor detenido")
PrintStopped ==
    /\ pc = "except"
    /\ stdout' = Append(stdout, "Servidor detenido")
    /\ pc' = "sysexit"
    /\ UNCHANGED << exc, exitCode, cwd, listening, boundPort, trace, active, req, resp,
                    prevFailed, backlog, timerVars, envVars >>

\* line 39: sys.exit(0) raises SystemExit(0)
SysExit ==
    /\ pc = "sysexit"
    /\ exc' = "SystemExit"
    /\ pc' = "unwind"
    /\ UNCHANGED << exitCode, cwd, listening, boundPort, stdout, trace, active, req, resp,
                    prevFailed, backlog, timerVars, envVars >>

\* The with statement's __exit__: server_close() closes the listening socket,
\* whatever exception is passing through.
Unwind ==
    /\ pc = "unwind"
    /\ listening' = FALSE
    /\ backlog' = 0
    /\ pc' = "finalize"
    /\ UNCHANGED << exc, exitCode, cwd, boundPort, stdout, trace, active, req, resp,
                    prevFailed, timerVars, envVars >>

\* A process whose exit status is 1 whatever ends it.
ExitStatusAlwaysError(e) == EXIT_ERROR

\* The exit status the interpreter gives the exception that ended the script.
ExitStatus(e) ==
    CASE e = "SystemExit"        -> EXIT_OK
      [] e = "none"              -> EXIT_OK
      [] e = "KeyboardInterrupt" -> EXIT_SIGINT
      [] OTHER                   -> EXIT_ERROR

\* An interpreter that does not wait for its threads (a daemon Timer).
MayTerminateAnyTime == TRUE

\* threading._shutdown joins every non-daemon thread, unless interrupted.
MayTerminate == timerPc \in {"unstarted", "done"} \/ joinAborted

\* The interpreter finalizes and the process ends; a thread still running
\* ends with it, and the operating system closes what is open.
Terminate ==
    /\ pc = "finalize"
    /\ MayTerminate
    /\ pc' = "terminated"
    /\ exitCode' = ExitStatus(exc)
    /\ timerPc' = IF timerPc \in {"waiting", "opening"} THEN "killed" ELSE timerPc
    /\ listening' = FALSE
    /\ backlog' = 0
    /\ UNCHANGED << exc, cwd, boundPort, stdout, trace, active, req, resp, prevFailed,
                    deadline, opens, envVars >>

(***************************************************************************)
(* The Timer thread.                                                       *)
(***************************************************************************)
\* open_browser with another port in the URL.
open_browser_other_port == [BrowserUrl EXCEPT !.port = 8080]

\* open_browser: webbrowser.open(f'http://localhost:{PORT}'); the URL opened.
open_browser == BrowserUrl

\* Timer.run: finished.wait(interval) has timed out and, cancel() never being
\* called, the function runs.
TimerFire ==
    /\ timerPc = "waiting"
    /\ now >= deadline
    /\ timerPc' = "opening"
    /\ opens' = Append(opens, [url |-> open_browser, at |-> now, listening |-> listening,
                               stopped |-> (\E i \in 1..Len(stdout) : stdout[i] = "Servidor detenido")])
    /\ UNCHANGED << mainVars, backlog, deadline, envVars >>

\* webbrowser.open returns and the thread ends.
BrowserReturn ==
    /\ timerPc = "opening"
    /\ timerPc' = "done"
    /\ UNCHANGED << mainVars, backlog, deadline, opens, envVars >>

(***************************************************************************)
(* The environment: clients, the clock, the interrupt signal.              *)
(***************************************************************************)
\* A client connects; the kernel queues the connection until it is accepted.
Connect ==
    /\ listening
    /\ backlog < MaxBacklog
    /\ backlog' = backlog + 1
    /\ UNCHANGED << mainVars, timerVars, envVars >>

\* A second passes.  The clock stops at MaxTime unless a timer is pending.
Tick ==
    /\ pc # "terminated"
    /\ now < MaxTime \/ (timerPc = "waiting" /\ now < deadline)
    /\ now' = now + 1
    /\ UNCHANGED << mainVars, backlog, timerVars, portInUse, sigints, intr, joinAborted >>

\* Where a KeyboardInterrupt raised at position p takes the main thread:
\* inside the try of lines 35-36 it is caught by line 37; elsewhere nothing
\* catches it.
InterruptTarget(p) ==
    CASE p \in {"select", "handle", "shutdown_request"} -> "except"
      [] p \in {"print1", "print2", "print3", "timer", "serve_forever", "except", "sysexit"} -> "unwind"
      [] OTHER -> "finalize"

\* SIGINT: Python raises KeyboardInterrupt in the main thread, wherever it is.
\* In a handler, _handle_request_noblock closes the connection and re-raises.
\* In the final join, the join is abandoned.
Interrupt ==
    /\ pc # "terminated"
    /\ sigints < MaxSigints
    /\ sigints' = sigints + 1
    /\ intr' = IF sigints = 0 THEN [at |-> pc, timer |-> timerPc] ELSE intr
    /\ IF pc = "finalize"
       THEN /\ joinAborted' = TRUE
            /\ UNCHANGED << pc, exc, active, req, resp >>
       ELSE /\ joinAborted' = joinAborted
            /\ pc' = InterruptTarget(pc)
            /\ exc' = IF pc' = "except" THEN exc ELSE "KeyboardInterrupt"
            /\ active' = IF pc \in {"handle", "shutdown_request"} THEN active - 1 ELSE active
            /\ req' = NoReq
            /\ resp' = NoResp
    /\ UNCHANGED << exitCode, cwd, listening, boundPort, stdout, trace, prevFailed,
                    backlog, timerVars, portInUse, now >>

Next ==
    \/ Chdir \/ Bind \/ PrintStartup \/ StartTimer \/ ServeForever
    \/ Accept \/ HandleRequest \/ HandlerException \/ ShutdownRequest
    \/ PrintStopped \/ SysExit \/ Unwind \/ Terminate
    \/ TimerFire \/ BrowserReturn
    \/ Connect \/ Tick \/ Interrupt

Spec == Init /\ [][Next]_vars

\* The steps the main thread takes on its own (a handler waits for its
\* client, so HandleRequest is not among them).
MainStep ==
    \/ Chdir \/ Bind \/ PrintStartup \/ StartTimer \/ ServeForever
    \/ Accept \/ ShutdownRequest
    \/ PrintStopped \/ SysExit \/ Unwind \/ Terminate

\* The scheduler runs both threads, the clock advances, webbrowser.open returns.
FairSpec ==
    /\ Spec
    /\ WF_vars(MainStep)
    /\ WF_vars(TimerFire)
    /\ WF_vars(BrowserReturn)
    /\ WF_vars(Tick)

TypeOK ==
    /\ pc \in {"chdir", "bind", "print1", "print2", "print3", "timer", "serve_forever",
               "select", "handle", "shutdown_request", "except", "sysexit", "unwind",
               "finalize", "terminated"}
    /\ exc \in {"none", "OSError", "KeyboardInterrupt", "SystemExit"}
    /\ exitCode \in {-1, EXIT_OK, EXIT_ERROR, EXIT_SIGINT}
    /\ cwd \in {InvocationDir, ScriptDir}
    /\ backlog \in 0..MaxBacklog
    /\ active \in 0..1
    /\ timerPc \in {"unstarted", "waiting", "opening", "done", "killed"}
    /\ sigints \in 0..MaxSigints
    /\ Len(opens) <= 1


(***************************************************************************)
(* Vocabulary of the properties.                                           *)
(***************************************************************************)
\* The three headers the claims speak of.
NoCacheHeaders ==
    << <<"Cache-Control", "no-cache, no-store, must-revalidate">>,
       <<"Pragma", "no-cache">>,
       <<"Expires", "0">> >>

HasHeader(rs, h) == \E i \in 1..Len(rs.headers) : rs.headers[i] = h

\* Each of the three headers is present, and no header of one of the three
\* names has another value.
CarriesNoCache(rs) ==
    /\ \A j \in 1..Len(NoCacheHeaders) : HasHeader(rs, NoCacheHeaders[j])
    /\ \A i \in 1..Len(rs.headers) :
          (\E j \in 1..Len(NoCacheHeaders) : rs.headers[i][1] = NoCacheHeaders[j][1])
             => (\E j \in 1..Len(NoCacheHeaders) : rs.headers[i] = NoCacheHeaders[j])

\* The request line carries a version word the server accepts (HTTP/1.x), or
\* is over-long: the cases in which the reply has a status line and headers.
HasVersion1x(r) ==
    \/ r.line = "toolong"
    \/ r.line = "words" /\ r.nwords >= 3 /\ r.version \in {"HTTP/1.0", "HTTP/1.1"}

\* A well-formed GET request with an HTTP/1.x request line.
Get1x(r) ==
    /\ r.line = "words" /\ r.nwords = 3 /\ r.command = "GET"
    /\ r.version \in {"HTTP/1.0", "HTTP/1.1"} /\ r.hdr = "ok"

\* The request path is made of plain names.
PlainPath(path) ==
    /\ path.segs # <<>>
    /\ ~path.slash
    /\ \A i \in 1..Len(path.segs) : path.segs[i] \notin {"", ".", ".."}

\* The file system node a plain path names under the script's directory.
Target(path) == Node(ScriptDir \o path.segs)

ReadableFile(path) == PlainPath(path) /\ Target(path).type = "file" /\ Target(path).readable
UnreadableFile(path) == PlainPath(path) /\ Target(path).type = "file" /\ ~Target(path).readable
MissingPath(path) == PlainPath(path) /\ Target(path).type = "missing"

\* Joined to the script's directory as it stands, the path leaves it.
Traversal(path) == ~IsUnder(Realpath(ScriptDir \o path.segs), ScriptDir)

Printed(msg) == \E i \in 1..Len(stdout) : stdout[i] = msg

InServe(p) == p \in {"select", "handle", "shutdown_request"}

\* One interrupt has arrived, while the main thread was in serve_forever.
InterruptedInServe == sigints = 1 /\ InServe(intr.at)

IsPrefix(a, b) == Len(a) <= Len(b) /\ SubSeq(b, 1, Len(a)) = a

StartupOrder == <<"chdir", "bind", "print", "print", "print", "timer", "serve_forever">>

ServerRootUrl == [scheme |-> "http", host |-> "localhost", port |-> boundPort]

C2_Safety ==
    InterruptedInServe =>
        /\ pc \in {"except", "sysexit", "unwind", "finalize", "terminated"}
        /\ active = 0
        /\ pc # "except" => Printed("Servidor detenido")
        /\ pc \in {"finalize", "terminated"} => ~listening
        /\ pc = "terminated" => exitCode = EXIT_OK

C2_InterruptExitsZero ==
    /\ []C2_Safety
    /\ (sigints >= 1 /\ InServe(intr.at)) ~> (pc = "terminated" /\ (sigints = 1 => exitCode = EXIT_OK))

\* The process has ended with status 0 after an interrupt that arrived in a
\* handler, before the timer had fired.
C2_Witness ==
    /\ pc = "terminated" /\ exitCode = EXIT_OK
    /\ sigints = 1 /\ intr.at = "handle" /\ intr.timer = "waiting"
    /\ Printed("Servidor detenido")

C5_FailureAnswered404 ==
    /\ (pc = "shutdown_request" /\ Get1x(req) /\ (MissingPath(req.path) \/ UnreadableFile(req.path)))
          => (resp.statusLine /\ resp.code = 404 /\ resp.body = ErrorPage /\ listening)
    /\ resp.code # 403
    /\ (pc = "shutdown_request" /\ prevFailed /\ Get1x(req) /\ ReadableFile(req.path) /\ req.ims.kind = "none")
          => (resp.code = 200 /\ resp.body.data = Target(req.path).data)

C5_FailureLeavesServerRunning ==
    (/\ pc = "shutdown_request"
     /\ (resp.code = 404 \/ req = ClientReset)
     /\ pc' # pc
     /\ sigints' = sigints)
        => (pc' = "select" /\ listening' /\ prevFailed')

OutsideFiles == {<<"secret">>, <<"home", "a">>}

C7_BusyPortIsFatal ==
    portInUse =>
        /\ ~listening /\ boundPort = 0
        /\ ~InServe(pc) /\ pc \notin {"print1", "print2", "print3", "timer", "serve_forever"}
        /\ \A i \in 1..Len(trace) : trace[i] \notin {"bind", "serve_forever"}
        /\ resp = NoResp /\ active = 0 /\ backlog = 0
        /\ timerPc = "unstarted"
        /\ pc = "terminated" => exitCode \notin {-1, EXIT_OK}
        /\ (pc = "terminated" /\ sigints = 0) => (exitCode = EXIT_ERROR /\ exc = "OSError")

\* The process has ended with status 1 on a busy port.
C7_Witness ==
    /\ portInUse /\ pc = "terminated" /\ exitCode = EXIT_ERROR /\ exc = "OSError"
    /\ trace = <<"chdir">>

(***************************************************************************)
(* C8                                                                      *)
(***************************************************************************)
\* C8: at most one connection is being handled at any moment, and exactly
\* when the main thread is in a handler; a connection that arrives meanwhile
\* waits in the listen queue; and while the Timer thread is in
\* webbrowser.open, the main thread in its accept loop can still accept.
C8_OneRequestAtATime ==
    /\ active <= 1
    /\ active = 1 <=> pc \in {"handle", "shutdown_request"}
    /\ (pc \in {"handle", "shutdown_request"} /\ backlog > 0) => ~ENABLED Accept
    /\ (pc = "select" /\ listening /\ backlog > 0) => ENABLED Accept

\* One connection in its handler, another waiting, the browser being opened.
C8_Witness ==
    /\ active = 1 /\ pc = "handle" /\ backlog >= 1
    /\ timerPc = "opening"

(***************************************************************************)
(* C9                                                                      *)
(***************************************************************************)
\* C9: the startup steps happen in the order chdir, bind, the three prints,
\* timer start, serve_forever; a handler runs only with the working
\* directory set to the script's directory; and the timer is started only
\* after a successful bind.
C9_StartupOrder ==
    /\ IsPrefix(trace, StartupOrder)
    /\ (InServe(pc) \/ resp.sent) => (cwd = ScriptDir /\ trace = StartupOrder)
    /\ Len(trace) >= 1 => cwd = ScriptDir
    /\ listening => Len(trace) >= 2
    /\ timerPc # "unstarted" => (Len(trace) >= 6 /\ boundPort = PORT /\ Len(stdout) >= 3)

\* A request has been answered after the whole startup sequence.
C9_Witness ==
    /\ pc = "shutdown_request" /\ resp.sent /\ trace = StartupOrder
    /\ cwd = ScriptDir /\ timerPc = "waiting"

(***************************************************************************)
(* C10                                                                     *)
(***************************************************************************)
\* One interrupt has arrived, in serve_forever, while the timer was waiting.
InterruptedBeforeFire == InterruptedInServe /\ intr.timer = "waiting"

\* C10 as stated: when the interrupt arrives before the timer has fired,
\* the browser is opened after the shutdown message has been printed and
\* the listening socket closed.
C10_OpenedOnlyAfterShutdown ==
    (InterruptedBeforeFire /\ Len(opens) = 1) => (opens[1].stopped /\ ~opens[1].listening)

\* C10 amended: when the interrupt arrives before the timer has fired (and
\* no further interrupt follows), the timer is not cancelled and the thread
\* is not killed: the browser is still opened exactly once, which may happen
\* after the shutdown message is printed and the socket closed but also
\* between the interrupt and either of them, and the process does not end
\* until the timer thread has run.
C10_Safety ==
    InterruptedBeforeFire =>
        /\ timerPc \in {"waiting", "opening", "done"}
        /\ timerPc = "waiting" => opens = <<>>
        /\ timerPc \in {"opening", "done"} => Len(opens) = 1
        /\ pc = "terminated" => (timerPc = "done" /\ Len(opens) = 1)

C10_TimerOutlivesInterrupt ==
    /\ []C10_Safety
    /\ (sigints >= 1 /\ InServe(intr.at) /\ intr.timer = "waiting")
          ~> (Len(opens) = 1 \/ sigints > 1)

\* The browser was opened with the shutdown message printed and the socket
\* closed, and the process then ended.
C10_Witness ==
    /\ InterruptedBeforeFire /\ Len(opens) = 1
    /\ opens[1].stopped /\ ~opens[1].listening
    /\ pc = "terminated" /\ exitCode = EXIT_OK

=============================================================================
